---- MODULE Spec2Model ----
(***************************************************************************)
(* Contextual anchors, the find_references tool and the content/outline    *)
(* selector of crates/agent.                                               *)
(*                                                                         *)
(* Strings are modelled as what Rust stores: sequences of UTF-8 bytes.     *)
(* Offsets are 0-based byte offsets, as in the code.  Option<T> is a       *)
(* sequence of length 0 (None) or 1 (Some).                                *)
(***************************************************************************)
EXTENDS Integers, Sequences, FiniteSets, TLC

VARIABLES
    anchor,          \* the ContextualAnchor handed to the operation
    vres,            \* Option: what validate_basic returned
    occ,             \* Option: what token_occurrences_in_context returned
    docText,         \* the live text of the target buffer (bytes)
    edits,           \* number of concurrent edits applied to the buffer so far
    pc,              \* position of FindReferencesTool::run
    raw_output,      \* raw_output updates emitted on the event stream, in order
    result,          \* Option: the locations of Ok(FindReferencesToolOutput)
    path_resolved,   \* find_project_path was called
    opened,          \* project.open_buffer was called
    lookup_calls,    \* the points handed to project.references, in order
    chosen,          \* Option: chosen_byte_offset
    acp_locations,   \* Option: the locations emitted on the event stream
    agent_location,  \* the project's agent location ("current focus")
    infra,           \* which infrastructure failure the call met, if any
    big_text,        \* the live text of the content selector's buffer (runs)
    parsing,         \* the buffer's parse status: "busy" or "idle"
    outline_items,   \* the items snapshot.outline(None) yields
    sel_path,        \* Option: the path given to get_buffer_content_or_outline
    sel_pc,          \* position of get_buffer_content_or_outline
    file_size,       \* Option: the size the call read first
    waited,          \* the call awaited parsing_idle
    content,         \* Option: the BufferContent returned
    pg_items,        \* the items (with snippets) handed to render_outline
    pg_regex,        \* Option: the filter handed to render_outline
    pg_per_page,     \* results_per_page handed to render_outline
    pg_first,        \* the offset of the first call
    pg_offset,       \* the offset of the latest call
    pg_out,          \* Option: what the latest call of render_outline returned
    pg_rendered,     \* the entries rendered by the calls so far, in order
    pg_calls,        \* number of calls of render_outline so far
    start_text,      \* Option: the text of the call's buffer when the call started
    observed         \* the buffer texts the reads of the call saw, in order

selVars == <<big_text, parsing, outline_items, sel_path, sel_pc, file_size,
             waited, content>>

pageVars == <<pg_items, pg_regex, pg_per_page, pg_first, pg_offset, pg_out,
              pg_rendered, pg_calls>>

histVars == <<start_text, observed>>

vars == <<anchor, vres, occ, docText, edits, pc, raw_output, result,
          path_resolved, opened, lookup_calls, chosen, acp_locations,
          agent_location, infra, selVars, pageVars, histVars>>

---------------------------------------------------------------------------
(* Bounds of the model *)

MaxCtxLen == 4
MaxTokLen == 2
MaxIndex == 3

---------------------------------------------------------------------------
(* UTF-8 strings *)

None == <<>>
Some(x) == <<x>>

Min(S) == CHOOSE x \in S : \A y \in S : x <= y

\* The characters of the model's alphabet, UTF-8 encoded:
\* "a", "\n" and U+1F600 (4 bytes in UTF-8, 2 code units in UTF-16).
CharA == <<97>>
CharNL == <<10>>
CharEmoji == <<240, 159, 152, 128>>
Alphabet == {CharA, CharNL, CharEmoji}

\* All strings of at most n characters of the alphabet.
RECURSIVE StringsUpTo(_)
StringsUpTo(n) ==
    IF n = 0 THEN {<<>>}
    ELSE LET shorter == StringsUpTo(n - 1)
         IN  shorter \cup {s \o c : s \in shorter, c \in Alphabet}

\* "foo bar foo" and "foo"
StrFooBarFoo == <<102, 111, 111, 32, 98, 97, 114, 32, 102, 111, 111>>
StrFoo == <<102, 111, 111>>

\* &s[from..to]
Slice(s, from, to) == SubSeq(s, from + 1, to)

StartsAt(hay, needle, i) ==
    /\ i + Len(needle) <= Len(hay)
    /\ Slice(hay, i, i + Len(needle)) = needle

\* str::find: the offset of the first match, if any
Find(hay, needle) ==
    LET hits == {i \in 0..Len(hay) : StartsAt(hay, needle, i)}
    IN  IF hits = {} THEN None ELSE Some(Min(hits))

\* str::contains
Contains(hay, needle) == Find(hay, needle) # None

---------------------------------------------------------------------------
(* ContextualAnchor *)

ErrMissingContext == [kind |-> "MissingContext"]
ErrMissingToken == [kind |-> "MissingToken"]
ErrContextDoesNotContainToken(c, t) ==
    [kind |-> "ContextDoesNotContainToken", context |-> c, token |-> t]
ErrInvalidIndex(ix) == [kind |-> "InvalidIndex", ix |-> ix]
ValidOk == [kind |-> "Ok"]

validate_basic_token_first(a) ==
    IF a.token = <<>> THEN ErrMissingToken
    ELSE IF a.context_str = <<>> THEN ErrMissingContext
    ELSE IF ~Contains(a.context_str, a.token)
         THEN ErrContextDoesNotContainToken(a.context_str, a.token)
    ELSE IF a.index # None /\ a.index[1] = 0 THEN ErrInvalidIndex(a.index[1])
    ELSE ValidOk

validate_basic_index_first(a) ==
    IF a.index # None /\ a.index[1] = 0 THEN ErrInvalidIndex(a.index[1])
    ELSE IF a.context_str = <<>> THEN ErrMissingContext
    ELSE IF a.token = <<>> THEN ErrMissingToken
    ELSE IF ~Contains(a.context_str, a.token)
         THEN ErrContextDoesNotContainToken(a.context_str, a.token)
    ELSE ValidOk

validate_basic(a) ==
    IF a.context_str = <<>> THEN ErrMissingContext
    ELSE IF a.token = <<>> THEN ErrMissingToken
    ELSE IF ~Contains(a.context_str, a.token)
         THEN ErrContextDoesNotContainToken(a.context_str, a.token)
    ELSE IF a.index # None /\ a.index[1] = 0 THEN ErrInvalidIndex(a.index[1])
    ELSE ValidOk

\* The while-let loop of token_occurrences_in_context.
RECURSIVE OccLoop(_, _, _, _)
OccLoop(hay, needle, start, res) ==
    LET f == Find(Slice(hay, start, Len(hay)), needle)
    IN  IF f = None THEN res
        ELSE OccLoop(hay, needle, start + f[1] + Len(needle),
                     Append(res, start + f[1]))

token_occurrences_overlapping(a) ==
    LET hay == a.context_str
        hits == {i \in 0..Len(hay) : StartsAt(hay, a.token, i)}
        RECURSIVE Asc(_)
        Asc(S) == IF S = {} THEN <<>> ELSE <<Min(S)>> \o Asc(S \ {Min(S)})
    IN  IF a.token = <<>> THEN <<>> ELSE Asc(hits)

token_occurrences_in_context(a) ==
    IF a.token = <<>> THEN <<>>
    ELSE OccLoop(a.context_str, a.token, 0, <<>>)

---------------------------------------------------------------------------
(* The anchor operations applied to bounded inputs *)

Paths == {"a.rs", "missing.rs"}
Indexes == {None} \cup {Some(k) : k \in 0..MaxIndex}

MkAnchor(p, c, t, i) == [path |-> p, context_str |-> c, token |-> t, index |-> i]

\* The anchors of the unit tests of contextual_anchor.rs and of the spec's example.
FooAnchors == {MkAnchor("a.rs", StrFooBarFoo, t, i) : t \in {StrFoo, <<>>, <<98, 98>>},
                                                       i \in {None, Some(0)}}

AnchorInputs ==
    {MkAnchor(p, c, t, i) : p \in Paths, c \in StringsUpTo(MaxCtxLen),
                            t \in StringsUpTo(MaxTokLen), i \in Indexes}
    \cup FooAnchors

RunIdle ==
    /\ docText = <<>>
    /\ edits = 0
    /\ pc = "idle"
    /\ raw_output = <<>>
    /\ result = None
    /\ path_resolved = FALSE
    /\ opened = FALSE
    /\ lookup_calls = <<>>
    /\ chosen = None
    /\ acp_locations = None
    /\ agent_location = None
    /\ infra = "none"

SelectorIdle ==
    /\ big_text = <<>>
    /\ parsing = "idle"
    /\ outline_items = <<>>
    /\ sel_path = None
    /\ sel_pc = "idle"
    /\ file_size = None
    /\ waited = FALSE
    /\ content = None

PagerIdle ==
    /\ pg_items = <<>>
    /\ pg_regex = None
    /\ pg_per_page = 0
    /\ pg_first = 0
    /\ pg_offset = 0
    /\ pg_out = None
    /\ pg_rendered = <<>>
    /\ pg_calls = 0

runVars == <<docText, edits, pc, raw_output, result, path_resolved, opened,
             lookup_calls, chosen, acp_locations, agent_location, infra>>

InitAnchor ==
    /\ anchor \in AnchorInputs
    /\ vres = None
    /\ occ = None
    /\ RunIdle
    /\ SelectorIdle
    /\ PagerIdle
    /\ start_text = None
    /\ observed = <<>>

CallValidateBasic ==
    /\ pc = "idle"
    /\ vres = None
    /\ vres' = Some(validate_basic(anchor))
    /\ UNCHANGED <<histVars, pageVars, anchor, occ, runVars, selVars>>

CallTokenOccurrences ==
    /\ pc = "idle"
    /\ occ = None
    /\ occ' = Some(token_occurrences_in_context(anchor))
    /\ UNCHANGED <<histVars, pageVars, anchor, vres, runVars, selVars>>

NextAnchor == CallValidateBasic \/ CallTokenOccurrences

SpecAnchor == InitAnchor /\ [][NextAnchor]_vars

---------------------------------------------------------------------------
(* The text snapshot of a buffer *)

\* A byte of the form 10xxxxxx continues a character.
IsContinuationByte(b) == 128 <= b /\ b <= 191

\* str::is_char_boundary
IsCharBoundary(s, i) ==
    i = 0 \/ i = Len(s) \/ (0 < i /\ i < Len(s) /\ ~IsContinuationByte(s[i + 1]))

\* The UTF-16 code units of the character a byte leads: 2 for the lead byte of
\* a 4-byte character, 1 for any other lead byte, 0 for a continuation byte.
Utf16Units(b) ==
    IF IsContinuationByte(b) THEN 0 ELSE IF b >= 240 THEN 2 ELSE 1

RECURSIVE SumUnits(_, _, _)
SumUnits(s, from, to) ==
    IF from >= to THEN 0 ELSE Utf16Units(s[from + 1]) + SumUnits(s, from + 1, to)

\* The offsets just after each "\n" before offset off.
LineBreaksBefore(s, off) == {i \in 1..off : s[i] = 10}

Max(S) == CHOOSE x \in S : \A y \in S : x >= y

\* BufferSnapshot::offset_to_point_utf16: the row is the number of line breaks
\* before the offset, the column the UTF-16 code units since the row's start.
offset_to_point_utf16(s, off) ==
    LET brk == LineBreaksBefore(s, off)
        rowStart == IF brk = {} THEN 0 ELSE Max(brk)
    IN  [row |-> Cardinality(brk), column |-> SumUnits(s, rowStart, off)]

\* Point::new(row, 0) as an offset: the start of the row, or the end of the
\* text when the text has no such row.
RowStartOffset(s, row) ==
    LET brk == LineBreaksBefore(s, Len(s))
    IN  IF row = 0 THEN 0
        ELSE IF Cardinality(brk) < row THEN Len(s)
        ELSE CHOOSE i \in brk : Cardinality({j \in brk : j <= i}) = row

\* str::trim_end_matches(&['\r', '\n'][..])
RECURSIVE TrimLineEnd(_)
TrimLineEnd(s) ==
    IF s # <<>> /\ s[Len(s)] \in {10, 13}
    THEN TrimLineEnd(SubSeq(s, 1, Len(s) - 1)) ELSE s

\* text_for_range(Point(from_row, 0) .. Point(to_row, 0)), trimmed
TrimmedRows(s, from_row, to_row) ==
    TrimLineEnd(Slice(s, RowStartOffset(s, from_row), RowStartOffset(s, to_row)))

\* str::match_indices, offsets only: the non-overlapping matches from left to
\* right; an empty pattern matches at every character boundary.
MatchIndices(hay, needle) ==
    IF needle = <<>>
    THEN LET b == {i \in 0..Len(hay) : IsCharBoundary(hay, i)}
             RECURSIVE Asc(_)
             Asc(S) == IF S = {} THEN <<>> ELSE <<Min(S)>> \o Asc(S \ {Min(S)})
         IN  Asc(b)
    ELSE OccLoop(hay, needle, 0, <<>>)

SaturatingSub(a, b) == IF a >= b THEN a - b ELSE 0

---------------------------------------------------------------------------
(* FindReferencesTool::run: resolution of the anchor against the buffer *)

SnippetRowsBefore == 17
SnippetRowsAfter == 14

UniqueContextOrFirst(snippet_occurrences) == Len(snippet_occurrences) >= 1

\* The gate of phase 1: snippet_occurrences.len() != 1 ends the resolution.
UniqueContext(snippet_occurrences) == Len(snippet_occurrences) = 1

ZeroBasedSelectionAsGiven(index) == IF index = None THEN 0 ELSE index[1]

\* sel0 = ca.index.unwrap_or(1).saturating_sub(1)
ZeroBasedSelection(index) ==
    SaturatingSub(IF index = None THEN 1 ELSE index[1], 1)

CenterColumnRoundedUp(start_pt, end_pt) ==
    IF start_pt.row = end_pt.row
    THEN (start_pt.column + end_pt.column + 1) \div 2
    ELSE start_pt.column

\* The column handed to the lookup.
CenterColumn(start_pt, end_pt) ==
    IF start_pt.row = end_pt.row
    THEN (start_pt.column + end_pt.column) \div 2
    ELSE start_pt.column

\* Lines 148-216 on one text: the diagnostic that ends the resolution, or the
\* chosen byte offset and the point for the lookup.
Resolve(text, ca) ==
    LET snippet_occurrences == MatchIndices(text, ca.context_str)
    IN  IF ~UniqueContext(snippet_occurrences)
        THEN [outcome |-> IF snippet_occurrences = <<>>
                          THEN "no_context" ELSE "multiple_context",
              msg |-> [kind |-> IF snippet_occurrences = <<>>
                                THEN "no_context" ELSE "multiple_context"]]
        ELSE
        LET snippet_start_byte == snippet_occurrences[1]
            snippet_len == Len(ca.context_str)
            snapshot_len == Len(text)
            snippet_end_byte == Min({snippet_start_byte + snippet_len, snapshot_len})
            token == ca.token
            inside == MatchIndices(Slice(text, snippet_start_byte, snippet_end_byte), token)
            token_occurrences_inside ==
                [i \in 1..Len(inside) |-> snippet_start_byte + inside[i]]
            n == Len(token_occurrences_inside)
            sel0 == ZeroBasedSelection(ca.index)
        IN  IF n = 0
            THEN [outcome |-> "no_token",
                  msg |-> [kind |-> "no_token", token |-> token]]
            ELSE IF n > 1 /\ ca.index = None
            THEN [outcome |-> "multiple_tokens",
                  msg |-> [kind |-> "multiple_tokens", token |-> token]]
            ELSE IF sel0 >= n
            THEN [outcome |-> "index_out_of_range",
                  msg |-> [kind |-> "index_out_of_range",
                           selection_index |-> sel0 + 1, occurrences |-> n]]
            ELSE
            LET chosen_byte_offset == token_occurrences_inside[sel0 + 1]
                start_pt == offset_to_point_utf16(text, chosen_byte_offset)
                end_byte == Min({chosen_byte_offset + Len(token), snapshot_len})
                end_pt == offset_to_point_utf16(text, end_byte)
                start_row == SaturatingSub(start_pt.row, SnippetRowsBefore)
                end_row == start_pt.row + SnippetRowsAfter
            IN  [outcome |-> "selected",
                 chosen_byte_offset |-> chosen_byte_offset,
                 selection_index |-> sel0 + 1,
                 point |-> [row |-> start_pt.row,
                            column |-> CenterColumn(start_pt, end_pt)],
                 snippet |-> [kind |-> "snippet",
                              snippet |-> TrimmedRows(text, start_row, end_row + 1),
                              snippet_start_line |-> start_row,
                              snippet_end_line |-> end_row,
                              selection_index |-> sel0 + 1]]

---------------------------------------------------------------------------
(* FindReferencesTool::run as a process *)

MaxDocLen == 2
MaxRunCtxLen == 2
MaxRunTokLen == 1
MaxEdits == 1
MaxLocs == 2

\* The paths find_project_path finds in the project.
ProjectPaths == {"a.rs"}

\* What the agent location held before the call.
PriorLocation == [buffer |-> "prev.rs", position |-> 0]

RunAnchors ==
    {MkAnchor(p, c, t, i) : p \in Paths, c \in StringsUpTo(MaxRunCtxLen),
                            t \in StringsUpTo(MaxRunTokLen), i \in Indexes}

InitRun ==
    /\ anchor \in RunAnchors
    /\ vres = None
    /\ occ = None
    /\ docText \in StringsUpTo(MaxDocLen)
    /\ edits = 0
    /\ pc = "start"
    /\ raw_output = <<>>
    /\ result = None
    /\ path_resolved = FALSE
    /\ opened = FALSE
    /\ lookup_calls = <<>>
    /\ chosen = None
    /\ acp_locations = None
    /\ agent_location = Some(PriorLocation)
    /\ infra = "none"
    /\ SelectorIdle
    /\ PagerIdle
    /\ start_text = Some(docText)
    /\ observed = <<>>

RunStartPathFirst ==
    /\ pc = "start"
    /\ path_resolved' = TRUE
    /\ IF anchor.path \notin ProjectPaths
       THEN pc' = "error" /\ infra' = "path_not_found" /\ UNCHANGED <<raw_output, result>>
       ELSE /\ UNCHANGED infra
            /\ LET v == validate_basic(anchor)
               IN  IF v # ValidOk
                   THEN /\ raw_output' = Append(raw_output,
                                                [kind |-> "validation_failed", error |-> v])
                        /\ result' = Some(<<>>)
                        /\ pc' = "done"
                   ELSE pc' = "spawned" /\ UNCHANGED <<raw_output, result>>
    /\ UNCHANGED <<histVars, pageVars, selVars, anchor, vres, occ, docText, edits, opened, lookup_calls,
                   chosen, acp_locations, agent_location>>

\* Lines 116-133: validation, then the project path, then the spawn.
RunStart ==
    /\ pc = "start"
    /\ LET v == validate_basic(anchor)
       IN  IF v # ValidOk
           THEN /\ raw_output' = Append(raw_output,
                                        [kind |-> "validation_failed", error |-> v])
                /\ result' = Some(<<>>)
                /\ pc' = "done"
                /\ UNCHANGED <<path_resolved, infra>>
           ELSE /\ path_resolved' = TRUE
                /\ IF anchor.path \in ProjectPaths
                   THEN pc' = "spawned" /\ UNCHANGED infra
                   ELSE pc' = "error" /\ infra' = "path_not_found"
                /\ UNCHANGED <<raw_output, result>>
    /\ UNCHANGED <<histVars, pageVars, selVars, anchor, vres, occ, docText, edits, opened, lookup_calls,
                   chosen, acp_locations, agent_location>>

\* Lines 135-139: the spawned task asks the project for the buffer and waits.
RunOpenBuffer ==
    /\ pc = "spawned"
    /\ opened' = TRUE
    /\ pc' = "open_await"
    /\ UNCHANGED <<histVars, pageVars, selVars, anchor, vres, occ, docText, edits, raw_output, result,
                   path_resolved, lookup_calls, chosen, acp_locations,
                   agent_location, infra>>

OpenBufferFailsSoftly ==
    /\ pc = "open_await"
    /\ pc' = "done"
    /\ result' = Some(<<>>)
    /\ infra' = "open_failed"
    /\ UNCHANGED <<histVars, pageVars, selVars, anchor, vres, occ, docText, edits, raw_output,
                   path_resolved, opened, lookup_calls, chosen, acp_locations,
                   agent_location>>

\* Line 139: open_buffer failed, `?` returns the error.
OpenBufferFails ==
    /\ pc = "open_await"
    /\ pc' = "error"
    /\ infra' = "open_failed"
    /\ UNCHANGED <<histVars, pageVars, selVars, anchor, vres, occ, docText, edits, raw_output, result,
                   path_resolved, opened, lookup_calls, chosen, acp_locations,
                   agent_location>>

FailResolutionAsError(msg) ==
    /\ raw_output' = Append(raw_output, msg)
    /\ pc' = "error"
    /\ UNCHANGED <<result, chosen, lookup_calls>>

\* emit_msg(&event_stream, msg); return Ok(FindReferencesToolOutput { locations: Vec::new() })
FailResolution(msg) ==
    /\ raw_output' = Append(raw_output, msg)
    /\ result' = Some(<<>>)
    /\ pc' = "done"
    /\ UNCHANGED <<chosen, lookup_calls>>

\* Lines 146-244: the buffer is open; resolve the anchor, emit the snippet
\* and call project.references, or emit a diagnostic and return no location.
RunResolve ==
    /\ pc = "open_await"
    /\ observed' = Append(observed, docText)
    /\ LET r == Resolve(docText, anchor)
       IN  IF r.outcome # "selected"
           THEN FailResolution(r.msg)
           ELSE /\ chosen' = Some(r.chosen_byte_offset)
                /\ raw_output' = raw_output \o <<[kind |-> "snippet_test"], r.snippet>>
                /\ lookup_calls' = Append(lookup_calls, r.point)
                /\ pc' = "lookup_await"
                /\ UNCHANGED result
    /\ UNCHANGED <<start_text, pageVars, selVars, anchor, vres, occ, docText, edits, path_resolved, opened,
                   acp_locations, agent_location, infra>>

\* Line 244: the lookup failed, `?` returns the error.
LookupFails ==
    /\ pc = "lookup_await"
    /\ pc' = "error"
    /\ infra' = "lookup_error"
    /\ UNCHANGED <<histVars, pageVars, selVars, anchor, vres, occ, docText, edits, raw_output, result,
                   path_resolved, opened, lookup_calls, chosen, acp_locations,
                   agent_location>>

NextCharBoundary(text, i) ==
    Min({k \in (i + 1)..Len(text) : IsCharBoundary(text, k)})

\* The ranges a lookup may return: each spans one character of the buffer.
LocationChoices(text) ==
    {[buffer |-> "a.rs", start |-> i, end |-> NextCharBoundary(text, i)] :
        i \in {k \in 0..(Len(text) - 1) : IsCharBoundary(text, k)}}

Reverse(q) == [i \in 1..Len(q) |-> q[Len(q) + 1 - i]]

\* The locations of a set of ranges, in the order of the text.
RECURSIVE InTextOrder(_)
InTextOrder(S) ==
    IF S = {} THEN <<>>
    ELSE LET first == CHOOSE l \in S : \A m \in S : l.start <= m.start
         IN  <<first>> \o InTextOrder(S \ {first})

\* What project.references may answer: nothing, or up to MaxLocs ranges of
\* the buffer, in the order of the text or in the reverse order.
LookupResults(text) ==
    LET sets == {S \in SUBSET LocationChoices(text) : Cardinality(S) <= MaxLocs}
    IN  {None} \cup {Some(InTextOrder(S)) : S \in sets}
               \cup {Some(Reverse(InTextOrder(S))) : S \in sets}

\* project.short_full_path_for_project_path
DisplayPath(path) == <<"root", path>>

\* Lines 252-278: one location of the result.
ToLocation(text, path, loc) ==
    LET start_point == offset_to_point_utf16(text, loc.start)
        end_point == offset_to_point_utf16(text, loc.end)
        trimmed == TrimmedRows(text, start_point.row, start_point.row + 1)
    IN  [path |-> DisplayPath(path),
         start_line |-> start_point.row,
         start_character |-> start_point.column,
         end_line |-> end_point.row,
         end_character |-> end_point.column,
         excerpt |-> IF trimmed = <<>> THEN None ELSE Some(trimmed)]

\* Lines 244-309: the lookup answered; convert the locations (reading the
\* buffer for their points and excerpts), move the agent location to the
\* first one, emit the locations and return them.
LookupReturnsLastLocation ==
    /\ pc = "lookup_await"
    /\ \E maybe_locations \in LookupResults(docText) :
        LET locs == IF maybe_locations = None THEN <<>> ELSE maybe_locations[1]
            out == [i \in 1..Len(locs) |-> ToLocation(docText, anchor.path, locs[i])]
            acp_locs == [i \in 1..Len(locs) |->
                            [path |-> anchor.path, line |-> out[i].start_line]]
        IN  /\ agent_location' =
                  IF locs # <<>>
                  THEN Some([buffer |-> locs[Len(locs)].buffer,
                             position |-> locs[Len(locs)].start])
                  ELSE agent_location
            /\ acp_locations' = IF acp_locs # <<>> THEN Some(acp_locs) ELSE acp_locations
            /\ result' = Some(out)
            /\ observed' = IF locs # <<>> THEN Append(observed, docText)
                            ELSE observed
    /\ pc' = "done"
    /\ UNCHANGED <<start_text, pageVars, selVars, anchor, vres, occ, docText, edits, raw_output, path_resolved,
                   opened, lookup_calls, chosen, infra>>

LookupReturns ==
    /\ pc = "lookup_await"
    /\ \E maybe_locations \in LookupResults(docText) :
        LET locs == IF maybe_locations = None THEN <<>> ELSE maybe_locations[1]
            out == [i \in 1..Len(locs) |-> ToLocation(docText, anchor.path, locs[i])]
            acp_locs == [i \in 1..Len(locs) |->
                            [path |-> anchor.path, line |-> out[i].start_line]]
        IN  /\ agent_location' =
                  IF locs # <<>>
                  THEN Some([buffer |-> locs[1].buffer, position |-> locs[1].start])
                  ELSE agent_location
            /\ acp_locations' = IF acp_locs # <<>> THEN Some(acp_locs) ELSE acp_locations
            /\ result' = Some(out)
            /\ observed' = IF locs # <<>> THEN Append(observed, docText)
                            ELSE observed
    /\ pc' = "done"
    /\ UNCHANGED <<start_text, pageVars, selVars, anchor, vres, occ, docText, edits, raw_output, path_resolved,
                   opened, lookup_calls, chosen, infra>>

\* Another writer edits the live buffer while the call is suspended: it
\* inserts a line break at the start, which moves every row and offset.
EditBuffer ==
    /\ pc \in {"open_await", "lookup_await"}
    /\ edits < MaxEdits
    /\ docText' = CharNL \o docText
    /\ edits' = edits + 1
    /\ UNCHANGED <<histVars, pageVars, selVars, anchor, vres, occ, pc, raw_output, result, path_resolved,
                   opened, lookup_calls, chosen, acp_locations, agent_location,
                   infra>>

\* The caller drops the task at a suspension point.
Cancel ==
    /\ pc \in {"spawned", "open_await", "lookup_await"}
    /\ pc' = "cancelled"
    /\ UNCHANGED <<histVars, pageVars, selVars, anchor, vres, occ, docText, edits, raw_output, result,
                   path_resolved, opened, lookup_calls, chosen, acp_locations,
                   agent_location, infra>>

NextRun ==
    \/ RunStart
    \/ RunOpenBuffer
    \/ OpenBufferFails
    \/ RunResolve
    \/ LookupFails
    \/ LookupReturns
    \/ EditBuffer
    \/ Cancel

SpecRun == InitRun /\ [][NextRun]_vars

---------------------------------------------------------------------------
(* outline.rs: large texts, the outline renderer *)

\* A large text is a sequence of runs [ch |-> a UTF-8 encoded character,
\* n |-> how many times it repeats], no run empty and no two neighbours of
\* the same character, so a text has one representation.

AUTO_OUTLINE_SIZE == 16384
FallbackCutoff == 1024

\* usize::MAX, the page size of line 87.  TLC's integers have 32 bits: this
\* is its largest one, and as 2^64 - 1 it is above every count of the model.
UsizeMax == 2147483647

CharEAcute == <<195, 169>>
CharBolt == <<226, 154, 161>>
WideAlphabet == {CharA, CharEAcute, CharBolt, CharEmoji}

RunBytes(r) == r.n * Len(r.ch)

\* buffer.text().len(), snapshot.len()
RECURSIVE TextLen(_)
TextLen(t) == IF t = <<>> THEN 0 ELSE RunBytes(Head(t)) + TextLen(Tail(t))

\* Rope::floor_char_boundary: the largest character boundary at or before
\* index, the length for an index at or past the end.
RECURSIVE floor_char_boundary(_, _)
floor_char_boundary(t, index) ==
    IF t = <<>> THEN 0
    ELSE IF RunBytes(Head(t)) <= index
         THEN RunBytes(Head(t)) + floor_char_boundary(Tail(t), index - RunBytes(Head(t)))
         ELSE (index \div Len(Head(t).ch)) * Len(Head(t).ch)

\* snapshot.text_for_range(0..len), len a character boundary
RECURSIVE TextPrefix(_, _)
TextPrefix(t, len) ==
    IF t = <<>> \/ len < Len(Head(t).ch) THEN <<>>
    ELSE IF RunBytes(Head(t)) <= len
         THEN <<Head(t)>> \o TextPrefix(Tail(t), len - RunBytes(Head(t)))
         ELSE <<[ch |-> Head(t).ch, n |-> len \div Len(Head(t).ch)]>>

\* snapshot.text_for_range(from..end of the text), from a character boundary
RECURSIVE TextSuffix(_, _)
TextSuffix(t, from) ==
    IF t = <<>> THEN <<>>
    ELSE IF from >= RunBytes(Head(t))
         THEN TextSuffix(Tail(t), from - RunBytes(Head(t)))
         ELSE IF from = 0 THEN t
         ELSE <<[ch |-> Head(t).ch, n |-> Head(t).n - (from \div Len(Head(t).ch))]>>
              \o Tail(t)

\* Lines 158-194: one rendered line per entry.
render_entries(entries) ==
    [i \in 1..Len(entries) |->
        LET item == entries[i][1]
            snippet == entries[i][2]
            start_line == item.range.start_row + 1
            end_line == item.range.end_row + 1
        IN  [indent |-> item.depth,
             label |-> IF snippet # None THEN snippet[1] ELSE item.text,
             lines |-> IF start_line = end_line THEN <<start_line>>
                       ELSE <<start_line, end_line>>]]

\* Iterator::skip
SkipOneLess(q, k) == SubSeq(q, Max({k, 1}), Len(q))

Skip(q, k) == SubSeq(q, k + 1, Len(q))

\* regex.as_ref().is_none_or(|regex| regex.is_match(&item.text)); a regex is
\* modelled by the set of display texts it matches.
IsMatch(regex, item) == regex = None \/ item.text \in regex[1]

RECURSIVE Ascending(_)
Ascending(S) == IF S = {} THEN <<>> ELSE <<Min(S)>> \o Ascending(S \ {Min(S)})

\* Lines 110-154.  The filter pulls items until results_per_page of them
\* matched or none is left; has_more pulls one more.
render_outline(items, regex, offset, results_per_page) ==
    LET rest == Skip(items, offset)
        matching == {i \in 1..Len(rest) : IsMatch(regex, rest[i][1])}
        taken == {i \in matching :
                     Cardinality({j \in matching : j <= i}) <= results_per_page}
        pulled == IF results_per_page = 0 THEN 0
                  ELSE IF Cardinality(matching) >= results_per_page THEN Max(taken)
                  ELSE Len(rest)
        has_more == pulled < Len(rest)
        order == Ascending(taken)
        entries == [i \in 1..Len(order) |-> rest[order[i]]]
        entries_rendered == Len(entries)
        page_start == offset + 1
        page_end == offset + entries_rendered
    IN  [entries |-> render_entries(entries),
         footer |-> IF has_more
                    THEN [kind |-> "more", page_start |-> page_start,
                          page_end |-> page_end, offset |-> page_end]
                    ELSE [kind |-> "total", page_start |-> page_start,
                          page_end |-> page_end, total_symbols |-> page_end]]

---------------------------------------------------------------------------
(* get_buffer_content_or_outline as a process *)

MaxHead == 2
MaxSlack == 2
MaxSmall == 2
MaxItems == 2

\* A short head of one character followed by a long body of another.
TextOf(c1, h, c2, m) ==
    IF c1 = c2 THEN (IF h + m = 0 THEN <<>> ELSE <<[ch |-> c1, n |-> h + m]>>)
    ELSE (IF h = 0 THEN <<>> ELSE <<[ch |-> c1, n |-> h]>>)
         \o (IF m = 0 THEN <<>> ELSE <<[ch |-> c2, n |-> m]>>)

\* A body of a few characters, or one that brings the text within MaxSlack
\* characters of AUTO_OUTLINE_SIZE on either side.
BodyCounts(head_bytes, width) ==
    (0..MaxSmall) \cup
    {(AUTO_OUTLINE_SIZE - head_bytes) \div width + d : d \in (0 - MaxSlack)..MaxSlack}

LargeTexts ==
    UNION {{TextOf(c1, h, c2, m) : m \in BodyCounts(h * Len(c1), Len(c2))} :
              c1 \in WideAlphabet, h \in 0..MaxHead, c2 \in WideAlphabet}

\* The symbols the outline of a text may hold: on the text's only row, the
\* source range at its start or at its end.
ItemChoices(t) ==
    {[text |-> x, depth |-> d, range |-> [start_row |-> 0, end_row |-> 0],
      source_start |-> o] :
        x \in {"fn f"}, d \in {0, 1}, o \in {0, TextLen(t)}}

RECURSIVE ItemSeqs(_, _)
ItemSeqs(S, n) ==
    IF n = 0 THEN {<<>>}
    ELSE LET shorter == ItemSeqs(S, n - 1)
         IN  shorter \cup {Append(q, x) : q \in shorter, x \in S}

InitSelector ==
    /\ anchor = MkAnchor("a.rs", <<>>, <<>>, None)
    /\ vres = None
    /\ occ = None
    /\ RunIdle
    /\ PagerIdle
    /\ big_text \in LargeTexts
    /\ start_text = Some(big_text)
    /\ observed = <<>>
    /\ parsing \in {"busy", "idle"}
    /\ outline_items = <<>>
    /\ sel_path \in {None, Some("a.rs")}
    /\ sel_pc = "start"
    /\ file_size = None
    /\ waited = FALSE
    /\ content = None

FullText(t) == [text |-> <<[kind |-> "text", runs |-> t]>>, is_outline |-> FALSE]

\* Lines 33-40 and 98-105: read the size; a text over AUTO_OUTLINE_SIZE waits
\* for the parse, any other is returned whole.
SelectStartInclusive ==
    /\ sel_pc = "start"
    /\ observed' = Append(observed, big_text)
    /\ file_size' = Some(TextLen(big_text))
    /\ IF TextLen(big_text) >= AUTO_OUTLINE_SIZE
       THEN /\ sel_pc' = "parsing_await"
            /\ waited' = TRUE
            /\ UNCHANGED content
       ELSE /\ content' = Some(FullText(big_text))
            /\ sel_pc' = "done"
            /\ UNCHANGED waited
    /\ UNCHANGED <<start_text, pageVars, anchor, vres, occ, runVars, big_text, parsing, outline_items,
                   sel_path>>

SelectStart ==
    /\ sel_pc = "start"
    /\ observed' = Append(observed, big_text)
    /\ file_size' = Some(TextLen(big_text))
    /\ IF TextLen(big_text) > AUTO_OUTLINE_SIZE
       THEN /\ sel_pc' = "parsing_await"
            /\ waited' = TRUE
            /\ UNCHANGED content
       ELSE /\ content' = Some(FullText(big_text))
            /\ sel_pc' = "done"
            /\ UNCHANGED waited
    /\ UNCHANGED <<start_text, pageVars, anchor, vres, occ, runVars, big_text, parsing, outline_items,
                   sel_path>>

\* The background parse of the buffer completes.
ParsingCompletes ==
    /\ parsing = "busy"
    /\ parsing' = "idle"
    /\ UNCHANGED <<histVars, pageVars, anchor, vres, occ, runVars, big_text, outline_items, sel_path,
                   sel_pc, file_size, waited, content>>

\* Lines 50-63: an item with the rest of the row its source range starts on,
\* if that is not empty.
WithSnippet(t, item) ==
    LET rest == TextSuffix(t, item.source_start)
    IN  <<item, IF rest = <<>> THEN None ELSE Some(rest)>>

\* Line 72: snapshot.len().min(snapshot.as_rope().floor_char_boundary(1024))
FallbackLenPastCutoff(t) ==
    Min({TextLen(t), floor_char_boundary(t, FallbackCutoff + 1)})

FallbackLen(t) == Min({TextLen(t), floor_char_boundary(t, FallbackCutoff)})

\* Lines 42-97: the parse is idle; read the outline, and return the first
\* 1KB of the text when it has no item, else the rendered outline.
SelectAfterParse ==
    /\ sel_pc = "parsing_await"
    /\ parsing = "idle"
    /\ observed' = Append(observed, big_text)
    /\ \E items \in ItemSeqs(ItemChoices(big_text), MaxItems) :
        /\ outline_items' = items
        /\ IF items = <<>>
           THEN LET len == FallbackLen(big_text)
                IN  content' = Some([text |-> <<[kind |-> "first_1kb_header",
                                                 path |-> sel_path],
                                                [kind |-> "text",
                                                 runs |-> TextPrefix(big_text, len)]>>,
                                     is_outline |-> FALSE])
           ELSE LET with_snippets ==
                        [i \in 1..Len(items) |-> WithSnippet(big_text, items[i])]
                IN  content' = Some([text |-> <<[kind |-> "outline_header",
                                                 path |-> sel_path],
                                                [kind |-> "outline",
                                                 outline |-> render_outline(
                                                     with_snippets, None, 0, UsizeMax)]>>,
                                     is_outline |-> TRUE])
    /\ sel_pc' = "done"
    /\ UNCHANGED <<start_text, pageVars, anchor, vres, occ, runVars, big_text, parsing, sel_path,
                   file_size, waited>>

\* Another writer cuts the live buffer down to its first character while the
\* call waits for the parse; the buffer is parsed again.
EditLargeBuffer ==
    /\ sel_pc = "parsing_await"
    /\ edits < MaxEdits
    /\ big_text # <<>>
    /\ big_text' = <<[ch |-> big_text[1].ch, n |-> 1]>>
    /\ parsing' = "busy"
    /\ edits' = edits + 1
    /\ UNCHANGED <<histVars, pageVars, anchor, vres, occ, docText, pc, raw_output, result,
                   path_resolved, opened, lookup_calls, chosen, acp_locations,
                   agent_location, infra, outline_items, sel_path, sel_pc,
                   file_size, waited, content>>

NextSelector ==
    \/ SelectStart
    \/ ParsingCompletes
    \/ SelectAfterParse
    \/ EditLargeBuffer

SpecSelector == InitSelector /\ [][NextSelector]_vars

---------------------------------------------------------------------------
(* render_outline called on its own, and a caller paging through an outline *)

MaxOutlineLen == 5
MaxPage == 3
MaxCalls == 7

ItemTexts == {"a", "b"}

\* An outline item on a row of its own, so that a rendered line tells which
\* item it renders; no snippet.
OutlineItemAt(i, x) ==
    <<[text |-> x, depth |-> 0, range |-> [start_row |-> i - 1, end_row |-> i - 1],
       source_start |-> 0], None>>

RECURSIVE TextSeqs(_)
TextSeqs(n) ==
    IF n = 0 THEN {<<>>}
    ELSE TextSeqs(n - 1) \cup
         {Append(q, x) : q \in {r \in TextSeqs(n - 1) : Len(r) = n - 1}, x \in ItemTexts}

OutlineInputs ==
    {[i \in 1..Len(q) |-> OutlineItemAt(i, q[i])] : q \in TextSeqs(MaxOutlineLen)}

\* No filter, a filter matching the items of text "a", a filter matching none.
RegexInputs == {None, Some({"a"}), Some({})}

PageSizes == (0..MaxPage) \cup {UsizeMax}

InitOutline ==
    /\ anchor = MkAnchor("a.rs", <<>>, <<>>, None)
    /\ vres = None
    /\ occ = None
    /\ RunIdle
    /\ SelectorIdle
    /\ pg_items \in OutlineInputs
    /\ pg_regex \in RegexInputs
    /\ pg_per_page \in PageSizes
    /\ pg_first \in 0..(MaxOutlineLen + 1)
    /\ pg_offset = pg_first
    /\ pg_out = None
    /\ pg_rendered = <<>>
    /\ pg_calls = 0
    /\ start_text = None
    /\ observed = <<>>

\* The first call of render_outline, at the caller's offset.
CallRenderOutline ==
    /\ pg_out = None
    /\ LET out == render_outline(pg_items, pg_regex, pg_offset, pg_per_page)
       IN  /\ pg_out' = Some(out)
           /\ pg_rendered' = out.entries
    /\ pg_calls' = 1
    /\ UNCHANGED <<histVars, anchor, vres, occ, runVars, selVars, pg_items, pg_regex,
                   pg_per_page, pg_first, pg_offset>>

\* The caller reads "use offset: {page_end} to see next page" and calls
\* render_outline again with that offset.
FollowFooter ==
    /\ pg_out # None
    /\ pg_out[1].footer.kind = "more"
    /\ pg_calls < MaxCalls
    /\ LET out == render_outline(pg_items, pg_regex, pg_out[1].footer.offset,
                                 pg_per_page)
       IN  /\ pg_out' = Some(out)
           /\ pg_rendered' = pg_rendered \o out.entries
    /\ pg_offset' = pg_out[1].footer.offset
    /\ pg_calls' = pg_calls + 1
    /\ UNCHANGED <<histVars, anchor, vres, occ, runVars, selVars, pg_items, pg_regex,
                   pg_per_page, pg_first>>

NextOutline ==
    \/ CallRenderOutline
    \/ FollowFooter

SpecOutline == InitOutline /\ [][NextOutline]_vars

---------------------------------------------------------------------------
(* Claims about the anchor operations, checked under SpecAnchor *)

\* t occurs in c at byte offset p
OccursAt(c, t, p) == p + Len(t) <= Len(c) /\ \A k \in 1..Len(t) : c[p + k] = t[k]

IsSubstring(c, t) == \E p \in 0..Len(c) : OccursAt(c, t, p)

\* The result the ordered checks of the specification prescribe.
FirstFailingCheck(a) ==
    CASE a.context_str = <<>> -> ErrMissingContext
      [] a.context_str # <<>> /\ a.token = <<>> -> ErrMissingToken
      [] a.context_str # <<>> /\ a.token # <<>>
           /\ ~IsSubstring(a.context_str, a.token) ->
             [kind |-> "ContextDoesNotContainToken",
              context |-> a.context_str, token |-> a.token]
      [] a.context_str # <<>> /\ a.token # <<>>
           /\ IsSubstring(a.context_str, a.token) /\ a.index = Some(0) ->
             [kind |-> "InvalidIndex", ix |-> 0]
      [] OTHER -> [kind |-> "Ok"]

\* C1: a call of validate_basic returns the first failing check in the order
\* MissingContext, MissingToken, ContextDoesNotContainToken{context, token},
\* InvalidIndex(0), else Ok, and leaves the anchor unchanged.
C1_FirstFailingCheck ==
    [][(vres = None /\ vres' # None)
         => (vres' = Some(FirstFailingCheck(anchor)) /\ anchor' = anchor)]_vars

\* An anchor failing several checks at once got the earliest one that is not the first.
C1_Witness ==
    /\ vres # None
    /\ vres[1].kind = "ContextDoesNotContainToken"
    /\ anchor.index = Some(0)

\* C2 as stated: validate_basic fails with InvalidIndex(0) iff index = Some(0),
\* whatever the other fields are.
C2_Original ==
    vres # None => ((vres[1] = ErrInvalidIndex(0)) <=> (anchor.index = Some(0)))

\* C2 (amended): validate_basic fails with InvalidIndex(0) iff index = Some(0)
\* and the three earlier checks pass: context_str is non-empty, token is
\* non-empty and context_str contains token; the path plays no part.
C2_InvalidIndexIff ==
    vres # None =>
        ((vres[1] = ErrInvalidIndex(0))
            <=> (/\ anchor.index = Some(0)
                 /\ anchor.context_str # <<>>
                 /\ anchor.token # <<>>
                 /\ IsSubstring(anchor.context_str, anchor.token)))

C2_Witness == vres = Some(ErrInvalidIndex(0)) /\ anchor.path = "missing.rs"

\* C3: token_occurrences_in_context returns the offsets of the greedy
\* left-to-right non-overlapping scan: strictly increasing, each an exact
\* occurrence, consecutive ones at least a token length apart, every
\* occurrence reported unless it starts inside a reported match, nothing for
\* an empty token, and [0, 8] for "foo" in "foo bar foo".
C3_GreedyOccurrences ==
    occ # None =>
        LET c == anchor.context_str
            t == anchor.token
            r == occ[1]
        IN  /\ t = <<>> => r = <<>>
            /\ t # <<>> =>
                 /\ \A i \in 1..Len(r) : OccursAt(c, t, r[i])
                 /\ \A i \in 1..(Len(r) - 1) :
                        r[i] < r[i + 1] /\ r[i + 1] - r[i] >= Len(t)
                 /\ \A p \in 0..Len(c) :
                        OccursAt(c, t, p) =>
                            \/ \E i \in 1..Len(r) : r[i] = p
                            \/ \E i \in 1..Len(r) : r[i] < p /\ p < r[i] + Len(t)
            /\ (c = StrFooBarFoo /\ t = StrFoo) => r = <<0, 8>>

\* Two matches were reported and an overlapping occurrence between them was not.
C3_Witness ==
    /\ occ # None
    /\ Len(occ[1]) = 2
    /\ \E p \in 0..Len(anchor.context_str) :
           /\ OccursAt(anchor.context_str, anchor.token, p)
           /\ \A i \in 1..Len(occ[1]) : occ[1][i] # p

C3_WitnessFoo == occ = Some(<<0, 8>>) /\ anchor.context_str = StrFooBarFoo

---------------------------------------------------------------------------
(* Claims about FindReferencesTool::run, checked under SpecRun *)

\* The offsets of the non-overlapping occurrences of t in s found by walking
\* the positions of s from p on, from left to right.
RECURSIVE ScanFrom(_, _, _)
ScanFrom(s, t, p) ==
    IF t = <<>> \/ p + Len(t) > Len(s) THEN <<>>
    ELSE IF OccursAt(s, t, p) THEN <<p>> \o ScanFrom(s, t, p + Len(t))
    ELSE ScanFrom(s, t, p + 1)

ContextCount(text, a) == Len(ScanFrom(text, a.context_str, 0))

\* Where the one matched context starts.
ContextStart(text, a) == ScanFrom(text, a.context_str, 0)[1]

\* The token's occurrences inside the matched context span, as offsets of the text.
TokensInContext(text, a) ==
    LET from == ContextStart(text, a)
        span == SubSeq(text, from + 1, from + Len(a.context_str))
        rel == ScanFrom(span, a.token, 0)
    IN  [i \in 1..Len(rel) |-> from + rel[i]]

\* The step of the call that reads the buffer and resolves the anchor.
ResolveStep ==
    /\ pc = "open_await"
    /\ pc' \notin {"open_await", "cancelled"}
    /\ infra' # "open_failed"

TokenPhaseKinds == {"no_token", "multiple_tokens", "index_out_of_range"}

\* The resolve step went on to token localization.
ReachedTokenPhase ==
    \/ pc' = "lookup_await"
    \/ pc' = "done" /\ raw_output'[Len(raw_output')].kind \in TokenPhaseKinds

EndsWithDiagnostic(kind) ==
    /\ pc' = "done"
    /\ result' = Some(<<>>)
    /\ Len(raw_output') = Len(raw_output) + 1
    /\ raw_output'[Len(raw_output')].kind = kind

\* C4: phase 1 counts the non-overlapping occurrences of context_str in the
\* whole text and goes on to the token phase iff the count is 1; a count of 0
\* ends with the no-context diagnostic, a count of 2 or more with the
\* ambiguous-context diagnostic, whatever token and index are.
C4_UniqueContextGate ==
    [][ResolveStep =>
          LET count == ContextCount(docText, anchor)
          IN  /\ ReachedTokenPhase <=> (count = 1)
              /\ count = 0 => EndsWithDiagnostic("no_context")
              /\ count >= 2 => EndsWithDiagnostic("multiple_context")]_vars

\* The context matched twice and the token occurs twice in it with no index.
C4_Witness ==
    /\ pc = "done"
    /\ edits = 0
    /\ raw_output = <<[kind |-> "multiple_context"]>>
    /\ ContextCount(docText, anchor) = 2
    /\ anchor.index = Some(2)

\* C5: with n the number of non-overlapping token occurrences inside the
\* matched context: n = 0 gives the no-token diagnostic; n > 1 without index
\* the ambiguous-token diagnostic; index k > n the out-of-range diagnostic;
\* index k with 1 <= k <= n selects the k-th occurrence; no index and n = 1
\* selects the only one.
C5_TokenSelection ==
    [][(ResolveStep /\ ContextCount(docText, anchor) = 1) =>
          LET toks == TokensInContext(docText, anchor)
              n == Len(toks)
              ix == anchor.index
          IN  /\ n = 0 => EndsWithDiagnostic("no_token")
              /\ (n > 1 /\ ix = None) => EndsWithDiagnostic("multiple_tokens")
              /\ (n >= 1 /\ ix # None /\ ix[1] > n) =>
                     EndsWithDiagnostic("index_out_of_range")
              /\ (n >= 1 /\ ix # None /\ 1 <= ix[1] /\ ix[1] <= n) =>
                     (pc' = "lookup_await" /\ chosen' = Some(toks[ix[1]]))
              /\ (n = 1 /\ ix = None) =>
                     (pc' = "lookup_await" /\ chosen' = Some(toks[1]))]_vars

\* Two occurrences in the context and index 2: the second one was chosen.
C5_Witness ==
    /\ pc = "lookup_await"
    /\ edits = 0
    /\ anchor.index = Some(2)
    /\ Len(TokensInContext(docText, anchor)) = 2
    /\ chosen = Some(TokensInContext(docText, anchor)[2])

\* Two occurrences in the context and index 3: out of range.
C5_WitnessOutOfRange ==
    /\ pc = "done"
    /\ edits = 0
    /\ anchor.index = Some(3)
    /\ raw_output = <<[kind |-> "index_out_of_range", selection_index |-> 3,
                       occurrences |-> 2]>>

\* The row of a byte offset: the line breaks before it.
RowOf(text, off) == Cardinality({i \in 1..off : text[i] = 10})

\* The column of a byte offset in UTF-16 code units: one per character since
\* the start of the row, two for a character of four bytes.
ColumnOf(text, off) ==
    LET lineStart == IF RowOf(text, off) = 0 THEN 0
                     ELSE Max({i \in 1..off : text[i] = 10})
        leads == {i \in (lineStart + 1)..off : text[i] < 128 \/ text[i] > 191}
        wide == {i \in leads : text[i] >= 240}
    IN  Cardinality(leads) + Cardinality(wide)

\* C6: the point handed to the lookup has the row of the chosen token's
\* start; its column is floor((start_column + end_column) / 2) when the token
\* starts and ends on one row, else the start column, in UTF-16 code units;
\* for a token on one row the column lies between the two.
C6_CenterPosition ==
    [][(ResolveStep /\ pc' = "lookup_await") =>
          LET from == chosen'[1]
              to == from + Len(anchor.token)
              point == lookup_calls'[Len(lookup_calls')]
              sc == ColumnOf(docText, from)
              ec == ColumnOf(docText, to)
              oneRow == RowOf(docText, from) = RowOf(docText, to)
          IN  /\ Len(lookup_calls') = Len(lookup_calls) + 1
              /\ point.row = RowOf(docText, from)
              /\ oneRow => point.column = (sc + ec) \div 2
              /\ oneRow => (sc <= point.column /\ point.column <= ec)
              /\ ~oneRow => point.column = sc]_vars

\* A token of four bytes and two code units, after another character of the
\* row: the column is the middle of the token in code units, not in bytes.
C6_Witness ==
    /\ pc = "lookup_await"
    /\ edits = 0
    /\ anchor.token = CharEmoji
    /\ chosen = Some(1)
    /\ lookup_calls = <<[row |-> 0, column |-> 2]>>

\* A token that ends on the next row, not at the start of its row.
C6_WitnessRows ==
    /\ pc = "lookup_await"
    /\ edits = 0
    /\ anchor.token = CharNL
    /\ lookup_calls = <<[row |-> 0, column |-> 1]>>

\* C7: an anchor that fails validate_basic is rejected before any document
\* I/O: no path resolved, no buffer opened, no lookup, one validation
\* diagnostic, and the call returns Ok with no location, also for a path that
\* is not in the project.
C7_RejectedBeforeIO ==
    (pc # "start" /\ FirstFailingCheck(anchor).kind # "Ok") =>
        /\ pc = "done"
        /\ result = Some(<<>>)
        /\ raw_output = <<[kind |-> "validation_failed",
                           error |-> FirstFailingCheck(anchor)]>>
        /\ ~path_resolved
        /\ ~opened
        /\ lookup_calls = <<>>
        /\ infra = "none"

C7_Witness ==
    /\ pc = "done"
    /\ anchor.path \notin ProjectPaths
    /\ raw_output # <<>>
    /\ raw_output[1].kind = "validation_failed"
    /\ raw_output[1].error.kind = "InvalidIndex"

\* The failure of the resolution the specification prescribes, if any.
ResolutionFailure(text, a) ==
    LET count == ContextCount(text, a)
        n == Len(TokensInContext(text, a))
    IN  IF count = 0 THEN "no_context"
        ELSE IF count >= 2 THEN "multiple_context"
        ELSE IF n = 0 THEN "no_token"
        ELSE IF n > 1 /\ a.index = None THEN "multiple_tokens"
        ELSE IF a.index # None /\ a.index[1] > n THEN "index_out_of_range"
        ELSE "none"

\* C8: every resolution failure makes the call emit one diagnostic and return
\* Ok with no location; the lookup is not invoked and no offset or position,
\* partial or best-effort, is produced.
C8_ResolutionFailureIsSoft ==
    [][(ResolveStep /\ ResolutionFailure(docText, anchor) # "none") =>
          /\ EndsWithDiagnostic(ResolutionFailure(docText, anchor))
          /\ Len(raw_output') = 1
          /\ lookup_calls' = <<>>
          /\ chosen' = None
          /\ acp_locations' = None
          /\ agent_location' = agent_location
          /\ infra' = "none"]_vars

\* The token occurs twice in the one matched context and no index was given.
C8_Witness ==
    /\ pc = "done"
    /\ result = Some(<<>>)
    /\ Len(raw_output) = 1
    /\ raw_output[1].kind = "multiple_tokens"
    /\ lookup_calls = <<>>
    /\ chosen = None

\* C9: for a structurally valid anchor, a path that is not in the project, a
\* failure to open the buffer and an error of the lookup each end the call in
\* an error, with no location list returned.
C9_InfrastructureFailureIsHard ==
    /\ (pc # "start" /\ FirstFailingCheck(anchor).kind = "Ok"
          /\ anchor.path \notin ProjectPaths) =>
            (pc = "error" /\ infra = "path_not_found" /\ ~opened)
    /\ infra # "none" =>
            /\ pc = "error"
            /\ result = None
            /\ acp_locations = None
            /\ FirstFailingCheck(anchor).kind = "Ok"
    /\ infra = "lookup_error" => Len(lookup_calls) = 1
    /\ infra = "open_failed" => (opened /\ lookup_calls = <<>>)
    /\ pc = "error" => infra # "none"

C9_Witness ==
    /\ pc = "error"
    /\ infra = "lookup_error"
    /\ result = None

C9_WitnessOpen == pc = "error" /\ infra = "open_failed"

C9_WitnessPath == pc = "error" /\ infra = "path_not_found"

\* The call completed with at least one location.
CompletesWithMatches ==
    /\ pc = "lookup_await"
    /\ pc' = "done"
    /\ result' # None
    /\ Len(result'[1]) >= 1

\* C14: the agent location is written only by the step that completes a
\* call with at least one match, and then holds the buffer and the start
\* position of the first returned match; no other step of a call (validation
\* failure, resolution failure, hard error, a lookup without matches,
\* cancellation at a suspension point, a concurrent edit) changes it.
C14_FocusPointer ==
    [][/\ agent_location' # agent_location => CompletesWithMatches
       /\ CompletesWithMatches =>
            /\ agent_location' # None
            /\ agent_location'[1].buffer = "a.rs"
            /\ IsCharBoundary(docText, agent_location'[1].position)
            /\ RowOf(docText, agent_location'[1].position) = result'[1][1].start_line
            /\ ColumnOf(docText, agent_location'[1].position)
                   = result'[1][1].start_character]_vars

\* Two matches came back in reverse text order and the pointer is at the
\* first returned one.
C14_Witness ==
    /\ pc = "done"
    /\ result # None
    /\ Len(result[1]) = 2
    /\ agent_location # Some(PriorLocation)
    /\ agent_location[1].position > 0
    /\ <<result[1][1].start_line, result[1][1].start_character>>
           # <<result[1][2].start_line, result[1][2].start_character>>

\* Cancelled while the lookup was pending: the pointer is as before the call.
C14_WitnessCancelled ==
    /\ pc = "cancelled"
    /\ Len(lookup_calls) = 1
    /\ agent_location = Some(PriorLocation)

\* The lookup found nothing: the pointer is as before the call.
C14_WitnessNoMatch ==
    /\ pc = "done"
    /\ Len(lookup_calls) = 1
    /\ result = Some(<<>>)
    /\ agent_location = Some(PriorLocation)

---------------------------------------------------------------------------
(* Claims about get_buffer_content_or_outline, checked under SpecSelector *)

\* The size of a text in bytes.
ByteCount(t) ==
    LET upTo[i \in 0..Len(t)] ==
            IF i = 0 THEN 0 ELSE upTo[i - 1] + t[i].n * Len(t[i].ch)
    IN  upTo[Len(t)]

\* The first step of a call: it reads the size and returns or waits.
SelectorFirstStep == sel_pc = "start" /\ sel_pc' # "start"

\* C10: for a text of at most 16384 bytes, 16384 included, the call returns
\* is_outline = false and the whole text, with no header and without waiting
\* for the parse.
C10_SmallTextVerbatim ==
    [][(SelectorFirstStep /\ ByteCount(big_text) <= 16384) =>
          /\ sel_pc' = "done"
          /\ content' = Some([text |-> <<[kind |-> "text", runs |-> big_text]>>,
                              is_outline |-> FALSE])
          /\ waited' = FALSE
          /\ big_text' = big_text]_vars

\* A text of exactly 16384 bytes, with characters of several bytes, was
\* returned whole while its parse was still running.
C10_Witness ==
    /\ sel_pc = "done"
    /\ ByteCount(big_text) = 16384
    /\ Len(big_text) = 2
    /\ parsing = "busy"
    /\ ~waited
    /\ content = Some([text |-> <<[kind |-> "text", runs |-> big_text]>>,
                       is_outline |-> FALSE])

\* Byte i (from 0) of a text given as runs.
RECURSIVE ByteAt(_, _)
ByteAt(t, i) ==
    IF i < RunBytes(Head(t)) THEN Head(t).ch[(i % Len(Head(t).ch)) + 1]
    ELSE ByteAt(Tail(t), i - RunBytes(Head(t)))

\* The bytes of p are the first bytes of t.
IsBytePrefix(p, t) ==
    /\ TextLen(p) <= TextLen(t)
    /\ \A i \in 0..(TextLen(p) - 1) : ByteAt(p, i) = ByteAt(t, i)

\* Offset k of t does not fall inside a character.
RECURSIVE IsTextBoundary(_, _)
IsTextBoundary(t, k) ==
    IF k = 0 THEN TRUE
    ELSE IF t = <<>> THEN FALSE
    ELSE IF k >= RunBytes(Head(t)) THEN IsTextBoundary(Tail(t), k - RunBytes(Head(t)))
    ELSE k % Len(Head(t).ch) = 0

\* The step after the parse, on a text over AUTO_OUTLINE_SIZE with no symbol.
FallbackStep ==
    /\ sel_pc = "parsing_await"
    /\ sel_pc' = "done"
    /\ outline_items' = <<>>
    /\ TextLen(big_text) > AUTO_OUTLINE_SIZE

\* C11: a text over 16384 bytes with no symbol item is answered with
\* is_outline = false and the "too large, no outline" header followed by the
\* prefix of the text that ends at the largest character boundary at or
\* before byte 1024: never longer than 1024 bytes, never splitting a character.
C11_FallbackPrefix ==
    [][FallbackStep =>
          /\ content' # None
          /\ content'[1].is_outline = FALSE
          /\ Len(content'[1].text) = 2
          /\ content'[1].text[1] = [kind |-> "first_1kb_header", path |-> sel_path]
          /\ content'[1].text[2].kind = "text"
          /\ LET prefix == content'[1].text[2].runs
                 len == TextLen(prefix)
             IN  /\ IsBytePrefix(prefix, big_text)
                 /\ len <= FallbackCutoff
                 /\ IsTextBoundary(big_text, len)
                 /\ \A k \in (len + 1)..FallbackCutoff :
                        ~IsTextBoundary(big_text, k)]_vars

\* The cutoff fell inside a character: the prefix ends before byte 1024.
C11_Witness ==
    /\ sel_pc = "done"
    /\ content # None
    /\ content[1].text[1].kind = "first_1kb_header"
    /\ TextLen(big_text) > AUTO_OUTLINE_SIZE
    /\ TextLen(content[1].text[2].runs) < FallbackCutoff
    /\ ~IsTextBoundary(big_text, FallbackCutoff)

---------------------------------------------------------------------------
(* Claims about render_outline, checked under SpecOutline *)

\* The footers as the text of lines 143 and 148 reads.
MoreFooter(from, to) ==
    [kind |-> "more", page_start |-> from, page_end |-> to, offset |-> to]

TotalFooter(from, to, total) ==
    [kind |-> "total", page_start |-> from, page_end |-> to, total_symbols |-> total]

\* The rendered line of the item at position i (from 1) of the input.
LineOfItem(i) == [indent |-> 0, label |-> pg_items[i][1].text, lines |-> <<i>>]

\* C12: without a filter, for N items, an offset o < N and a page size
\* p >= 1, the latest call rendered exactly the items at zero-based positions
\* o .. min(o+p, N)-1, in order; its footer is "Showing symbols {o+1}-{o+p}
\* (... use offset: {o+p} ...)" if o + p < N and "Showing symbols {o+1}-{N}
\* (total symbols: {N})" otherwise.  For N = 5 and p = 3, o = 0 gives 1-3 with
\* "use offset: 3" and o = 3 gives 4-5 with "total symbols: 5".
C12_PageWithoutFilter ==
    (pg_out # None /\ pg_regex = None /\ pg_offset < Len(pg_items) /\ pg_per_page >= 1)
    => LET N == Len(pg_items)
           o == pg_offset
           p == pg_per_page
           more == p < N - o
           last == IF more THEN o + p ELSE N
       IN  /\ pg_out[1].entries = [k \in 1..(last - o) |-> LineOfItem(o + k)]
           /\ pg_out[1].footer = IF more THEN MoreFooter(o + 1, o + p)
                                  ELSE TotalFooter(o + 1, N, N)
           /\ (N = 5 /\ p = 3 /\ o = 0) => pg_out[1].footer = MoreFooter(1, 3)
           /\ (N = 5 /\ p = 3 /\ o = 3) => pg_out[1].footer = TotalFooter(4, 5, 5)

\* Five items, three per page: the second page, reached by following the
\* footer of the first.
C12_Witness ==
    /\ pg_out # None
    /\ pg_regex = None
    /\ Len(pg_items) = 5
    /\ pg_per_page = 3
    /\ pg_offset = 3
    /\ pg_calls = 2
    /\ pg_out[1].footer = TotalFooter(4, 5, 5)

C12_WitnessFirstPage ==
    /\ pg_out # None
    /\ pg_regex = None
    /\ Len(pg_items) = 5
    /\ pg_per_page = 3
    /\ pg_offset = 0
    /\ pg_out[1].footer = MoreFooter(1, 3)

\* C13: when the footer of the latest call reports a total, the total is the
\* number of items of the input sequence, for every offset (also one past the
\* end), every page size, with or without a filter.
C13_ExactTotal ==
    (pg_out # None /\ pg_out[1].footer.kind = "total")
    => pg_out[1].footer.total_symbols = Len(pg_items)

\* The rendered lines of the items the filter matches, in sequence order.
MatchingLines ==
    LET matching == {i \in 1..Len(pg_items) : IsMatch(pg_regex, pg_items[i][1])}
        order == Ascending(matching)
    IN  [k \in 1..Len(order) |-> LineOfItem(order[k])]

\* C16: paging from offset 0 with a page size >= 1 by following the footers:
\* the pages so far hold the first matching items, each once and in sequence
\* order; when a footer reports a total they hold every matching item; and
\* the paging takes at most one call per item and one more.
C16_PagingCoversOnce ==
    (pg_first = 0 /\ pg_per_page >= 1 /\ pg_out # None)
    => /\ Len(pg_rendered) <= Len(MatchingLines)
       /\ pg_rendered = SubSeq(MatchingLines, 1, Len(pg_rendered))
       /\ pg_out[1].footer.kind = "total" => pg_rendered = MatchingLines
       /\ pg_calls <= Len(pg_items) + 1

---------------------------------------------------------------------------
(* Claim about the reads of one call, under SpecRun and SpecSelector *)

\* C15: within one call, whatever edits land at its suspension points, every
\* read of the buffer's text sees the content the buffer had when the call
\* started.
C15_ReadsSeeCallStartText ==
    \A i \in 1..Len(observed) : Some(observed[i]) = start_text


====
